---------------------------- MODULE Spec2Model ----------------------------
(***************************************************************************)
(* A model of sunscreen_web3: the numeric bridge (AsNum), the byte codec   *)
(* (AsBytes), the file keystore (AsFile) and parse_ether_value.            *)
(*                                                                         *)
(* Five specifications share the variables below; each one drives one     *)
(* component and leaves the other components' variables at rest:          *)
(*   SpecNum    the two AsNum::to conversions                             *)
(*   SpecCodec  as_bytes / from_bytes on the three FHE types              *)
(*   Spec       AsFile::read / AsFile::write, one call at a time          *)
(*   SpecSteps  AsFile::write and AsFile::read as the system calls they    *)
(*              are made of, with two callers and interruption             *)
(*   SpecParse  parse_ether_value                                          *)
(***************************************************************************)
EXTENDS Integers, Sequences, FiniteSets

VARIABLES
    num,        \* numeric bridge: the values produced so far, oldest first
    codec,      \* byte codec: [obj, buf, cut, res]
    fs,         \* file system: path -> byte sequence, or NoFile
    written,    \* keystore: path -> object of the last successful write (or None)
    res,        \* keystore: outcome of the last read / write call (or None)
    procs,      \* call steps: caller -> its position in write or read
    hist,       \* call steps: what has happened to the path so far
    text,       \* parser: the input string, as a sequence of characters
    parsed      \* parser: result of parse_ether_value (or None)

vars == <<num, codec, fs, written, res, procs, hist, text, parsed>>

None == [tag |-> "None"]
\* a path names no file, or a file holding bytes
NoFile == [tag |-> "NoFile"]
File(bytes) == [tag |-> "File", bytes |-> bytes]

Ok(v) == [tag |-> "Ok", val |-> v]
\* src/lib.rs Error: one variant per kind
Err(kind) == [tag |-> "Err", kind |-> kind]
\* the call unwinds instead of returning a Result
Panic == [tag |-> "Panic"]

Last(s) == s[Len(s)]
Prefix(s, k) == SubSeq(s, 1, k)
Rev(s) == [i \in 1..Len(s) |-> s[Len(s) + 1 - i]]
Rep(n, c) == [i \in 1..n |-> c]

(***************************************************************************)
(* 1. Numeric bridge                                                       *)
(*                                                                         *)
(* A 64-bit word (u64) is the set of its set bit positions (0..63).        *)
(*   crypto_bigint::Limb   a word in a wrapper of its own: [limb]          *)
(*   crypto_bigint::U256   [limbs]: four Limbs, least significant first    *)
(*   Unsigned256           sunscreen's wrapper of it: [val]                *)
(*   U256 (ethers)         [words]: the tuple field, [u64; 4], least       *)
(*                         significant word first                          *)
(* Each type has its own reading as a number, written as that type's       *)
(* library reads it; a number is the set of its set bits (0..255).         *)
(***************************************************************************)
LimbBits == 64
Limbs == 4

Limb(word) == [limb |-> word]
Uint(limbs) == [limbs |-> limbs]

\* crypto_bigint::U256::from(Unsigned256): the wrapped integer
UintFromUnsigned(x) == x.val
\* Unsigned256::from(crypto_bigint::U256): the integer, wrapped
UnsignedFromUint(u) == [ty |-> "Unsigned256", val |-> u]

\* crypto_bigint::U256::to_words: arr[i] = self.limbs[i].0
ToWordsReversed(u) == [i \in 1..Limbs |-> u.limbs[Limbs + 1 - i].limb]
ToWords(u) == [i \in 1..Limbs |-> u.limbs[i].limb]

\* crypto_bigint::U256::from_words: limbs[i] = Limb(arr[i])
FromWords(words) == Uint([i \in 1..Limbs |-> Limb(words[i])])

\* ethers' tuple constructor U256(words)
U256(words) == [ty |-> "U256", words |-> words]

\* impl AsNum for Unsigned256
Unsigned256To(x) == U256(ToWords(UintFromUnsigned(x)))

\* impl AsNum for U256
U256To(w) == UnsignedFromUint(FromWords(w.words))

\* The number a crypto_bigint::U256 is: limb i counts 2^(64 i), so its bits
\* are the bits of each limb moved up by the limb's place.
UintBits(u) ==
    UNION {{LimbBits * (i - 1) + b : b \in u.limbs[i].limb} : i \in 1..Limbs}

AllBits == 0..(LimbBits * Limbs - 1)

\* The number an ethers U256 is, bit by bit as U256::bit(k) answers:
\* self.0[k / 64] & (1 << (k % 64)) != 0
U256Bit(w, k) == (k % LimbBits) \in w.words[(k \div LimbBits) + 1]
U256Bits(w) == {k \in AllBits : U256Bit(w, k)}

\* the number a value of either type is
NumBits(v) ==
    IF v.ty = "U256" THEN U256Bits(v) ELSE UintBits(UintFromUnsigned(v))

\* the Unsigned256 that is the number n: limb i is (n >> 64 i) mod 2^64
UnsignedOf(bits) ==
    UnsignedFromUint(Uint([i \in 1..Limbs |->
        Limb({b - LimbBits * (i - 1) :
                 b \in {c \in bits : c \div LimbBits = i - 1}})]))
\* the ethers U256 that is the number n: bit k of n is bit k % 64 of word k / 64
U256Of(bits) ==
    U256([i \in 1..Limbs |->
             {r \in 0..(LimbBits - 1) : (LimbBits * (i - 1) + r) \in bits}])

\* bit positions at the limb boundaries, combined pairwise below
SampleBits == {0, 1, 63, 64, 127, 128, 191, 192, 255}
NumBitSets ==
    {{}, AllBits} \cup {{b} : b \in AllBits}
        \cup {{a, b} : a \in SampleBits, b \in SampleBits}
        \cup {AllBits \ {b} : b \in SampleBits}
NumInputs ==
    {UnsignedOf(s) : s \in NumBitSets} \cup {U256Of(s) : s \in NumBitSets}

NumIdle == <<>>

\* how many conversions are chained on one input
MaxConversions == 2

UnsignedTo ==
    /\ num # <<>> /\ Len(num) <= MaxConversions
    /\ Last(num).ty = "Unsigned256"
    /\ num' = Append(num, Unsigned256To(Last(num)))
    /\ UNCHANGED <<codec, fs, written, res, procs, hist, text, parsed>>

WordTo ==
    /\ num # <<>> /\ Len(num) <= MaxConversions
    /\ Last(num).ty = "U256"
    /\ num' = Append(num, U256To(Last(num)))
    /\ UNCHANGED <<codec, fs, written, res, procs, hist, text, parsed>>

(***************************************************************************)
(* 2. Byte codec (impl_bytes_via_bincode)                                  *)
(*                                                                         *)
(* bincode's legacy functions: fixed-width little-endian integers, u64     *)
(* lengths, a u8 tag before an Option, a u32 index before an enum variant, *)
(* trailing bytes allowed, no size limit.  The three FHE types are opaque  *)
(* to this crate; they are modelled as what bincode sees of them: structs  *)
(* of byte strings, options and one vector.                                *)
(*   PrivateKey  (data)                                                    *)
(*   PublicKey   { public_key, galois_key: Option, relin_key: Option }     *)
(*   Ciphertext  { data_type, inner: Seal(Vec) }                           *)
(* An Option is <<>> (None) or <<b>> (Some(b)).                            *)
(***************************************************************************)
\* longest byte string inside an object
MaxLen == 2
\* most ciphertext parts inside a Ciphertext
MaxVec == 1

PayloadBytes == {0, 1}
Payloads == UNION {[1..n -> PayloadBytes] : n \in 0..MaxLen}
Options == {<<>>} \cup {<<b>> : b \in Payloads}
Vecs == UNION {[1..n -> Payloads] : n \in 0..MaxVec}
\* two data_type strings of different length
TypeNames == {<<83>>, <<85, 52>>}

Variants == {"PublicKey", "PrivateKey", "Ciphertext"}

PrivateKeys == {[variant |-> "PrivateKey", data |-> d] : d \in Payloads}
PublicKeys ==
    {[variant |-> "PublicKey", public_key |-> k, galois_key |-> g, relin_key |-> r] :
        k \in Payloads, g \in Options, r \in Options}
Ciphertexts ==
    {[variant |-> "Ciphertext", data_type |-> t, inner |-> v] :
        t \in TypeNames, v \in Vecs}
CryptoObjects == PrivateKeys \cup PublicKeys \cup Ciphertexts

\* ---- serializer ----
\* n as w little-endian bytes (n < 2^24 here)
LE(n, w) == [i \in 1..w |-> CASE i = 1 -> n % 256
                               [] i = 2 -> (n \div 256) % 256
                               [] i = 3 -> (n \div 65536) % 256
                               [] OTHER -> 0]
\* Each serializer yields the byte strings it hands to the writer, one per
\* write_all call, in order; an empty byte string is not written.
SerBytes(b) == <<LE(Len(b), 8)>> \o (IF b = <<>> THEN <<>> ELSE <<b>>)
SerOption(o) == IF o = <<>> THEN << <<0>> >> ELSE << <<1>> >> \o SerBytes(o[1])
RECURSIVE SerEach(_)
SerEach(v) == IF v = <<>> THEN <<>> ELSE SerBytes(Head(v)) \o SerEach(Tail(v))
SerVec(v) == <<LE(Len(v), 8)>> \o SerEach(v)
RECURSIVE Flatten(_)
Flatten(chunks) ==
    IF chunks = <<>> THEN <<>> ELSE Head(chunks) \o Flatten(Tail(chunks))

\* bincode::serialize with a length prefix of four bytes
\* bincode::serialize_into: the write_all calls made for x
SerializeInto(x) ==
    CASE x.variant = "PrivateKey" -> SerBytes(x.data)
      [] x.variant = "PublicKey" ->
            SerBytes(x.public_key) \o SerOption(x.galois_key) \o SerOption(x.relin_key)
      [] x.variant = "Ciphertext" ->
            SerBytes(x.data_type) \o <<LE(0, 4)>> \o SerVec(x.inner)

\* bincode::serialize with a length prefix of four bytes on the first field
SerializeShortLen(x) ==
    LET b == Flatten(SerializeInto(x)) IN SubSeq(b, 1, 4) \o SubSeq(b, 9, Len(b))

\* bincode::serialize: the same bytes, into a Vec
Serialize(x) == Flatten(SerializeInto(x))

\* AsBytes::as_bytes
as_bytes(x) == Ok(Serialize(x))

\* ---- deserializer: a reader over b at position pos (1-based) ----
\* every read returns [ok, val, pos, want]; ok = FALSE is a bincode::Error,
\* and want > 0 says that it is the end of the input: the read_exact in
\* progress lacks that many bytes
Fail == [ok |-> FALSE, val |-> <<>>, pos |-> 0, want |-> 0]
Short(n) == [Fail EXCEPT !.want = n]
Got(v, pos) == [ok |-> TRUE, val |-> v, pos |-> pos, want |-> 0]
\* a length no buffer of the model can satisfy
Huge == 256 * 65536

ReadInt(b, pos, w) ==
    IF pos + w - 1 > Len(b) THEN Short(pos + w - 1 - Len(b))
    ELSE IF \E i \in 4..w : b[pos + i - 1] # 0 THEN Got(Huge, pos + w)
    ELSE Got(b[pos] + 256 * b[pos + 1] + 65536 * b[pos + 2], pos + w)

ReadBytes(b, pos) ==
    LET n == ReadInt(b, pos, 8)
    IN  IF ~n.ok THEN n
        ELSE IF n.pos + n.val - 1 > Len(b) THEN Short(n.pos + n.val - 1 - Len(b))
        ELSE Got(SubSeq(b, n.pos, n.pos + n.val - 1), n.pos + n.val)

ReadOption(b, pos) ==
    IF pos > Len(b) THEN Short(1)
    ELSE CASE b[pos] = 0 -> Got(<<>>, pos + 1)
           [] b[pos] = 1 -> LET v == ReadBytes(b, pos + 1)
                            IN  IF v.ok THEN Got(<<v.val>>, v.pos) ELSE v
           [] OTHER -> Fail

RECURSIVE ReadEach(_, _, _)
ReadEach(b, pos, n) ==
    IF n = 0 THEN Got(<<>>, pos)
    ELSE LET h == ReadBytes(b, pos)
         IN  IF ~h.ok THEN h
             ELSE LET t == ReadEach(b, h.pos, n - 1)
                  IN  IF t.ok THEN Got(<<h.val>> \o t.val, t.pos) ELSE t

\* the element count, then the elements one after the other
ReadVec(b, pos) ==
    LET n == ReadInt(b, pos, 8)
    IN  IF ~n.ok THEN n ELSE ReadEach(b, n.pos, n.val)

\* bincode::deserialize / deserialize_from for the target type
Deserialize(variant, b) ==
    CASE variant = "PrivateKey" ->
            LET d == ReadBytes(b, 1)
            IN  IF d.ok THEN Got([variant |-> variant, data |-> d.val], d.pos) ELSE d
      [] variant = "PublicKey" ->
            LET k == ReadBytes(b, 1) IN
            IF ~k.ok THEN k ELSE
            LET g == ReadOption(b, k.pos) IN
            IF ~g.ok THEN g ELSE
            LET r == ReadOption(b, g.pos) IN
            IF ~r.ok THEN r ELSE
            Got([variant |-> variant, public_key |-> k.val,
                 galois_key |-> g.val, relin_key |-> r.val], r.pos)
      [] variant = "Ciphertext" ->
            LET t == ReadBytes(b, 1) IN
            IF ~t.ok THEN t ELSE
            LET e == ReadInt(b, t.pos, 4) IN
            IF ~e.ok THEN e ELSE
            IF e.val # 0 THEN Fail ELSE
            LET v == ReadVec(b, e.pos) IN
            IF ~v.ok THEN v ELSE
            Got([variant |-> variant, data_type |-> t.val, inner |-> v.val], v.pos)

\* from_bytes that falls back to a default object when decoding fails
from_bytes_or_default(variant, bytes) ==
    LET d == Deserialize(variant, bytes)
    IN  IF d.ok THEN Ok(d.val)
        ELSE Ok(CHOOSE x \in CryptoObjects : x.variant = variant)

\* AsBytes::from_bytes: `?` turns a bincode::Error into Error::Conversion
from_bytes(variant, bytes) ==
    LET d == Deserialize(variant, bytes)
    IN  IF d.ok THEN Ok(d.val) ELSE Err("Conversion")

CodecIdle == [obj |-> None, buf |-> None, cut |-> FALSE, res |-> None]

\* x.as_bytes()
AsBytes ==
    /\ codec.obj # None /\ codec.buf = None
    /\ codec' = [codec EXCEPT !.buf = as_bytes(codec.obj)]
    /\ UNCHANGED <<num, fs, written, res, procs, hist, text, parsed>>

\* the caller hands on only the first k bytes of the encoding
Truncate ==
    /\ codec.buf # None /\ ~codec.cut /\ codec.res = None
    /\ \E k \in 0..(Len(codec.buf.val) - 1) :
          codec' = [codec EXCEPT !.buf = Ok(Prefix(codec.buf.val, k)), !.cut = TRUE]
    /\ UNCHANGED <<num, fs, written, res, procs, hist, text, parsed>>

\* T::from_bytes(&buf), T the type the bytes were made from
FromBytes ==
    /\ codec.buf # None /\ codec.res = None
    /\ codec' = [codec EXCEPT !.res = from_bytes(codec.obj.variant, codec.buf.val)]
    /\ UNCHANGED <<num, fs, written, res, procs, hist, text, parsed>>

(***************************************************************************)
(* 3. File keystore (impl_file_via_bincode, impl AsFile for LocalWallet)   *)
(*                                                                         *)
(* A LocalWallet is a signing key (the 32-byte big-endian private scalar), *)
(* the address derived from it, and a chain id.                            *)
(***************************************************************************)
\* testing.rs ALICE
AliceKey ==
    <<28, 14, 181, 36, 76, 22, 89, 87,
      82, 94, 243, 137, 252, 20, 250, 196,
      66, 79, 234, 174, 250, 191, 135, 199,
      228, 225, 91, 204, 123, 66, 94, 21>>
\* testing.rs BOB
BobKey ==
    <<59, 66, 162, 223, 60, 101, 139, 21,
      107, 130, 64, 225, 137, 23, 35, 250,
      182, 90, 224, 185, 127, 159, 91, 186,
      42, 189, 94, 36, 0, 101, 186, 161>>
\* the order of the secp256k1 group: a valid scalar s has 0 < s < CurveOrder
CurveOrder ==
    <<255, 255, 255, 255, 255, 255, 255, 255,
      255, 255, 255, 255, 255, 255, 255, 254,
      186, 174, 220, 230, 175, 72, 160, 59,
      191, 210, 94, 140, 208, 54, 65, 65>>
KeyLen == 32
ZeroKey == Rep(KeyLen, 0)
OneKey == [i \in 1..KeyLen |-> IF i = KeyLen THEN 1 ELSE 0]
OrderMinusOne == [CurveOrder EXCEPT ![KeyLen] = CurveOrder[KeyLen] - 1]

\* big-endian comparison of two byte strings of equal length
BytesLess(a, b) ==
    \E i \in 1..Len(a) : a[i] < b[i] /\ \A j \in 1..(i - 1) : a[j] = b[j]

\* k256: NonZeroScalar
ValidScalar(b) == b # ZeroKey /\ BytesLess(b, CurveOrder)

\* ethers: secret_key_to_address; a function of the scalar alone
Address(scalar) == <<"address", scalar>>

\* testnet.rs parasol::CHAIN_ID
CHAIN_ID == 574
\* ethers: the chain id of a freshly built wallet
DefaultChainId == 1

Wallet(scalar, chain) ==
    [variant |-> "LocalWallet", signer |-> scalar,
     address |-> Address(scalar), chain_id |-> chain]
\* Signer::with_chain_id (testnet.rs client, testing.rs client)
with_chain_id(w, chain) == [w EXCEPT !.chain_id = chain]

Wallets ==
    {Wallet(k, DefaultChainId) : k \in {AliceKey, BobKey, OneKey, OrderMinusOne}}
        \cup {with_chain_id(Wallet(k, DefaultChainId), CHAIN_ID) : k \in {AliceKey, BobKey}}

\* LocalWallet::from_bytes: the slice is converted to a 32-byte array
\* reference, which asserts its length, before the scalar is checked
LocalWallet_from_bytes(bytes) ==
    IF Len(bytes) # KeyLen THEN Panic
    ELSE IF ~ValidScalar(bytes) THEN Err("Wallet")
    ELSE Ok(Wallet(bytes, DefaultChainId))

\* self.signer().to_bytes() written in hex text
SignerToHex(w) == [i \in 1..(2 * KeyLen) |->
                      LET v == w.signer[(i + 1) \div 2]
                          d == IF i % 2 = 1 THEN v \div 16 ELSE v % 16
                      IN  IF d < 10 THEN 48 + d ELSE 87 + d]
\* self.signer().to_bytes()
SignerToBytes(w) == w.signer

\* ---- the file system ----
\* File::create that opens an existing file without truncating it
FileCreateKeep(old) == IF old = NoFile THEN File(<<>>) ELSE old
\* File::create: a new empty file, or the existing one truncated
FileCreate(old) == File(<<>>)

\* write_all that always starts at the beginning of the file
WriteAtStart(file, off, chunk) ==
    LET content == file.bytes
    IN  IF chunk = <<>> THEN file ELSE
        File([i \in 1..(IF Len(content) > Len(chunk) THEN Len(content)
                        ELSE Len(chunk)) |->
                 IF i <= Len(chunk) THEN chunk[i] ELSE content[i]])
\* write_all of chunk at the descriptor's offset off (a gap reads as zeros);
\* with an empty chunk no write is made and the file stays as it is
WriteAt(file, off, chunk) ==
    LET content == file.bytes
        end == off + Len(chunk)
    IN  IF chunk = <<>> THEN file
        ELSE File([i \in 1..(IF Len(content) > end THEN Len(content) ELSE end) |->
                      IF i > off /\ i <= end THEN chunk[i - off]
                      ELSE IF i <= Len(content) THEN content[i] ELSE 0])

GoodPaths == {"a.key", "b.key"}
\* a path in a directory that does not exist: open and create both fail
BadPath == "missing/c.key"
Paths == GoodPaths \cup {BadPath}

Targets == Variants \cup {"LocalWallet"}

\* the write_all calls of write: serialize_into's, or the one of std::fs::write
WriteCalls(x) ==
    IF x.variant = "LocalWallet" THEN <<SignerToBytes(x)>> ELSE SerializeInto(x)
\* the bytes write puts in the file
Encoding(x) == Flatten(WriteCalls(x))

\* AsFile::read for T = target on what the path names
ReadResult(target, file) ==
    IF file = NoFile THEN Err("Io")
    ELSE IF target = "LocalWallet" THEN LocalWallet_from_bytes(file.bytes)
    ELSE from_bytes(target, file.bytes)

\* the objects the keystore specifications store: every type, several sizes
StoreObjects ==
    {[variant |-> "PrivateKey", data |-> <<>>],
     [variant |-> "PrivateKey", data |-> <<0, 1>>],
     [variant |-> "PublicKey", public_key |-> <<1>>, galois_key |-> <<>>,
      relin_key |-> << <<0>> >>],
     [variant |-> "Ciphertext", data_type |-> <<83>>, inner |-> << <<1>> >>]}
        \cup Wallets

\* what a file may hold before the first call: nothing, garbage, key files
\* of the wrong length, scalars out of range, an encoding with a tail
InitContents ==
    {NoFile} \cup
    {File(b) : b \in
        {<<>>, <<2>>, Prefix(AliceKey, KeyLen - 1), Append(AliceKey, 0),
         ZeroKey, CurveOrder, Rep(KeyLen, 255), BobKey,
         Serialize([variant |-> "PrivateKey", data |-> <<0, 1>>]),
         Serialize([variant |-> "PrivateKey", data |-> <<>>]) \o <<1, 1>>}}

KeystoreIdle == [p \in Paths |-> NoFile]
WrittenIdle == [p \in Paths |-> None]

Call(op, p, target, before, out) ==
    [op |-> op, path |-> p, target |-> target, before |-> before, out |-> out]

\* <T as AsFile>::write(&x, p), T one of the bincode types or LocalWallet:
\* create (or truncate) the file, then write the whole encoding
WriteEffect(p, x) ==
    IF p = BadPath
    THEN /\ res' = Call("write", p, x.variant, fs[p], Err("Io"))
         /\ UNCHANGED <<fs, written>>
    ELSE /\ fs' = [fs EXCEPT ![p] = WriteAt(FileCreate(fs[p]), 0, Encoding(x))]
         /\ written' = [written EXCEPT ![p] = x]
         /\ res' = Call("write", p, x.variant, fs[p], Ok(<<>>))

WriteBincode ==
    /\ \E p \in Paths, x \in StoreObjects \ Wallets : WriteEffect(p, x)
    /\ UNCHANGED <<num, codec, procs, hist, text, parsed>>

WriteWallet ==
    /\ \E p \in Paths, w \in Wallets : WriteEffect(p, w)
    /\ UNCHANGED <<num, codec, procs, hist, text, parsed>>

\* <T as AsFile>::read(p) for a bincode type T
ReadBincode ==
    /\ \E p \in Paths, target \in Variants :
          res' = Call("read", p, target, fs[p], ReadResult(target, fs[p]))
    /\ UNCHANGED <<num, codec, fs, written, procs, hist, text, parsed>>

\* <LocalWallet as AsFile>::read(p)
ReadWallet ==
    /\ \E p \in Paths :
          res' = Call("read", p, "LocalWallet", fs[p], ReadResult("LocalWallet", fs[p]))
    /\ UNCHANGED <<num, codec, fs, written, procs, hist, text, parsed>>

(***************************************************************************)
(* 3b. AsFile::write and AsFile::read as their system calls                *)
(*                                                                         *)
(* write is File::create (std::fs::write: the same) followed by write_all  *)
(* calls on the new descriptor, each at the descriptor's own offset.  read *)
(* is File::open followed by the read calls of bincode::deserialize_from   *)
(* (one read_exact per field, straight on the file), or, for a wallet, by  *)
(* the calls of std::fs::read: the file's size is asked for, then          *)
(* read_to_end reads until a read returns nothing.  No lock is taken, so   *)
(* another caller's calls may fall between any two of them, and a writing  *)
(* process may be killed before or inside any of its write_all calls.  A   *)
(* caller returns after its read.                                          *)
(***************************************************************************)
Callers == {"c1", "c2"}
StepPath == "a.key"
\* writes started on the path, all callers together
MaxWrites == 2

StepObjects ==
    {[variant |-> "PrivateKey", data |-> <<>>],
     [variant |-> "PrivateKey", data |-> <<0, 1>>],
     [variant |-> "PublicKey", public_key |-> <<1>>, galois_key |-> <<>>,
      relin_key |-> << <<0>> >>],
     Wallet(AliceKey, CHAIN_ID)}
\* the types read is called for: those of the objects written
StepTargets == {x.variant : x \in StepObjects}

\* a caller: pc is where it stands; obj, pending, off belong to a write (the
\* object, the write_all calls still to make, the descriptor's offset);
\* target, got, cap, start, next, cut, last to a read (the type asked for,
\* the bytes read so far, the capacity of read_to_end's buffer now and at
\* its start, its next call, and hist.cut and written as they were when the
\* file was opened); clean says that no other caller's write has shared the
\* file with this call
ProcIdle == [pc |-> "idle", obj |-> None, pending |-> <<>>, off |-> 0,
             clean |-> TRUE, target |-> "", got |-> <<>>, cap |-> 0,
             start |-> 0, next |-> "", cut |-> None, last |-> None]
ProcsIdle == [c \in Callers |-> ProcIdle]
\* the path's history: writes started, whether two writes have shared the
\* file, whether a write was killed, the last killed write if it was alone
\* on the file and nothing was written since, the objects whose write ended
HistIdle == [started |-> 0, overlap |-> FALSE, killed |-> FALSE, cut |-> None,
             done |-> {}]

OtherWriting(c) == \E d \in Callers \ {c} : procs[d].pc = "writing"
\* every call in flight other than c's has now shared the file with c's write
Spoil(ps, c) ==
    [d \in Callers |-> IF d # c /\ ps[d].pc \in {"writing", "opened", "reading"}
                       THEN [ps[d] EXCEPT !.clean = FALSE] ELSE ps[d]]

\* File::create(path) of write
Create(c) ==
    /\ procs[c].pc = "idle" /\ hist.started < MaxWrites
    /\ \E x \in StepObjects :
          procs' = Spoil([procs EXCEPT ![c] =
                            [ProcIdle EXCEPT !.pc = "writing", !.obj = x,
                                             !.pending = WriteCalls(x),
                                             !.clean = ~OtherWriting(c)]], c)
    /\ fs' = [fs EXCEPT ![StepPath] = FileCreate(fs[StepPath])]
    /\ hist' = [hist EXCEPT !.started = @ + 1, !.overlap = @ \/ OtherWriting(c),
                            !.cut = None]
    /\ UNCHANGED <<num, codec, written, res, text, parsed>>

\* the next write_all call; the last one ends write with Ok(())
WriteChunk(c) ==
    /\ procs[c].pc = "writing"
    /\ LET p == procs[c]
           chunk == Head(p.pending)
           last == Len(p.pending) = 1
       IN  /\ fs' = [fs EXCEPT ![StepPath] = WriteAt(fs[StepPath], p.off, chunk)]
           /\ procs' = [procs EXCEPT ![c] =
                            IF last THEN ProcIdle
                            ELSE [p EXCEPT !.off = p.off + Len(chunk),
                                           !.pending = Tail(p.pending)]]
           /\ written' = IF last THEN [written EXCEPT ![StepPath] = p.obj]
                         ELSE written
           /\ hist' = [hist EXCEPT !.done = IF last THEN @ \cup {p.obj} ELSE @]
    /\ UNCHANGED <<num, codec, res, text, parsed>>

\* the writing process is killed after create and before its last byte:
\* k bytes of the write_all call it was in have reached the file
Kill(c) ==
    /\ procs[c].pc = "writing"
    /\ \E k \in 0..(Len(Head(procs[c].pending)) - 1) :
          LET p == procs[c]
          IN  /\ fs' = [fs EXCEPT ![StepPath] =
                            WriteAt(fs[StepPath], p.off, Prefix(Head(p.pending), k))]
              /\ procs' = [procs EXCEPT ![c] = [ProcIdle EXCEPT !.pc = "killed"]]
              /\ hist' = [hist EXCEPT !.killed = TRUE,
                                      !.cut = IF p.clean
                                              THEN [obj |-> p.obj, off |-> p.off + k]
                                              ELSE None]
    /\ UNCHANGED <<num, codec, written, res, text, parsed>>

\* ---- read ----
\* one read call for at most n bytes on a descriptor at offset off: the bytes
\* the file holds there now, none at or beyond its end
ReadAt(file, off, n) ==
    LET avail == IF Len(file.bytes) > off THEN Len(file.bytes) - off ELSE 0
    IN  SubSeq(file.bytes, off + 1, off + (IF n < avail THEN n ELSE avail))

\* read returns out to caller c
Return(c, out) ==
    LET p == procs[c]
    IN  /\ res' = [op |-> "read", path |-> StepPath, target |-> p.target,
                   out |-> out,
                   inflight |-> ~p.clean,
                   serial |-> ~hist.overlap /\ ~hist.killed,
                   cut |-> IF p.clean THEN p.cut ELSE None,
                   last |-> IF p.clean THEN p.last ELSE None]
        /\ procs' = [procs EXCEPT ![c] = [ProcIdle EXCEPT !.pc = "returned"]]

\* File::open(path) of <T as AsFile>::read, by a caller that is not writing
OpenFile(c) ==
    /\ procs[c].pc = "idle"
    /\ \E target \in StepTargets :
          IF fs[StepPath] = NoFile
          THEN /\ res' = [op |-> "read", path |-> StepPath, target |-> target,
                          out |-> Err("Io"),
                          inflight |-> OtherWriting(c),
                          serial |-> ~hist.overlap /\ ~hist.killed,
                          cut |-> hist.cut, last |-> written[StepPath]]
               /\ procs' = [procs EXCEPT ![c] = [ProcIdle EXCEPT !.pc = "returned"]]
          ELSE /\ procs' = [procs EXCEPT ![c] =
                               [ProcIdle EXCEPT
                                   !.pc = IF target = "LocalWallet" THEN "opened"
                                          ELSE "reading",
                                   !.target = target,
                                   !.clean = ~OtherWriting(c),
                                   !.cut = hist.cut,
                                   !.last = written[StepPath]]]
               /\ UNCHANGED res
    /\ UNCHANGED <<num, codec, fs, written, hist, text, parsed>>

\* the next read call of bincode::deserialize_from: the read_exact in progress
\* asks for the bytes it still lacks; a read that returns nothing ends it
\* with an error
ReadFile(c) ==
    /\ procs[c].pc = "reading" /\ procs[c].target \in Variants
    /\ LET p == procs[c]
           chunk == ReadAt(fs[StepPath], Len(p.got), Deserialize(p.target, p.got).want)
           d == Deserialize(p.target, p.got \o chunk)
       IN  IF chunk = <<>> THEN Return(c, Err("Conversion"))
           ELSE IF d.ok THEN Return(c, Ok(d.val))
           ELSE IF d.want = 0 THEN Return(c, Err("Conversion"))
           ELSE /\ procs' = [procs EXCEPT ![c].got = p.got \o chunk]
                /\ UNCHANGED res
    /\ UNCHANGED <<num, codec, fs, written, hist, text, parsed>>

\* size of the probe read_to_end makes with a buffer of its own
ProbeSize == 32
\* Vec: the capacity after room for more bytes was asked of a vector of
\* length len and capacity cap
Reserve(cap, len, more) ==
    IF cap - len >= more THEN cap
    ELSE LET need == len + more
             twice == 2 * cap
             m == IF twice > need THEN twice ELSE need
         IN  IF m > 8 THEN m ELSE 8
\* read_to_end's next call at the top of its loop: a probe when the buffer
\* is full and still has the capacity it started with
LoopTop(len, cap, start) == IF len = cap /\ cap = start THEN "probe" ELSE "read"

\* file.metadata() of std::fs::read: the buffer is reserved for the file's
\* size; with size 0 read_to_end begins with a probe
FileMetadata(c) ==
    /\ procs[c].pc = "opened"
    /\ LET size == Len(fs[StepPath].bytes)
       IN  procs' = [procs EXCEPT ![c].pc = "reading", ![c].cap = size,
                                  ![c].start = size,
                                  ![c].next = IF size = 0 THEN "probe" ELSE "read"]
    /\ UNCHANGED <<num, codec, fs, written, res, hist, text, parsed>>

\* the next read call of read_to_end; when it returns nothing the bytes read
\* go to LocalWallet::from_bytes
ReadToEnd(c) ==
    /\ procs[c].pc = "reading" /\ procs[c].target = "LocalWallet"
    /\ LET p == procs[c]
           len == Len(p.got)
           cap == IF p.next = "probe" THEN p.cap ELSE Reserve(p.cap, len, IF len = p.cap THEN ProbeSize ELSE 0)
           chunk == ReadAt(fs[StepPath], len,
                           IF p.next = "probe" THEN ProbeSize ELSE cap - len)
           cap2 == IF p.next = "probe" THEN Reserve(p.cap, len, Len(chunk)) ELSE cap
       IN  IF chunk = <<>> THEN Return(c, LocalWallet_from_bytes(p.got))
           ELSE /\ procs' = [procs EXCEPT
                                ![c].got = p.got \o chunk,
                                ![c].cap = cap2,
                                ![c].next = IF p.next = "probe" THEN "read"
                                            ELSE LoopTop(len + Len(chunk), cap2, p.start)]
                /\ UNCHANGED res
    /\ UNCHANGED <<num, codec, fs, written, hist, text, parsed>>

(***************************************************************************)
(* 4. parse_ether_value                                                    *)
(*                                                                         *)
(* A string is a sequence of one-character strings.  A U256 is the         *)
(* sequence of its decimal digits, most significant first, without leading *)
(* zeros (zero is <<0>>), so that no value is cut to the width of a         *)
(* machine integer.                                                        *)
(***************************************************************************)
DecChars == <<"0", "1", "2", "3", "4", "5", "6", "7", "8", "9">>
HexLower == DecChars \o <<"a", "b", "c", "d", "e", "f">>
HexUpper == DecChars \o <<"A", "B", "C", "D", "E", "F">>
IndexOf(c, chars) == CHOOSE i \in 1..Len(chars) : chars[i] = c
IsDec(c) == \E i \in 1..Len(DecChars) : DecChars[i] = c
IsHex(c) == \E i \in 1..Len(HexLower) : HexLower[i] = c \/ HexUpper[i] = c
DecVal(c) == IndexOf(c, DecChars) - 1
HexVal(c) == IF \E i \in 1..Len(HexLower) : HexLower[i] = c
             THEN IndexOf(c, HexLower) - 1 ELSE IndexOf(c, HexUpper) - 1
\* the characters the regex class \s matches: Unicode White_Space.  A
\* character TLA+ has no spelling for is written as its code point.
WhiteSpace ==
    {" ", "\t", "\n", "\f", "\r", "U+000B", "U+0085", "U+00A0", "U+1680",
     "U+2000", "U+2001", "U+2002", "U+2003", "U+2004", "U+2005", "U+2006",
     "U+2007", "U+2008", "U+2009", "U+200A", "U+2028", "U+2029", "U+202F",
     "U+205F", "U+3000"}
IsSpace(c) == c \in WhiteSpace

\* ---- 256-bit arithmetic on decimal digit sequences ----
\* without leading zeros
Norm(n) ==
    IF \A i \in 1..Len(n) : n[i] = 0 THEN <<0>>
    ELSE LET k == CHOOSE i \in 1..Len(n) : n[i] # 0 /\ \A j \in 1..(i - 1) : n[j] = 0
         IN  SubSeq(n, k, Len(n))
Pow10(k) == CASE k = 0 -> 1 [] k = 1 -> 10 [] k = 2 -> 100 [] k = 3 -> 1000
\* the digit of n that weighs 10^r
DigitAt(n, r) == IF r < Len(n) THEN n[Len(n) - r] ELSE 0
\* n in groups of four digits, least significant group first, and back
ToGroups(n) ==
    [j \in 1..((Len(n) + 3) \div 4) |->
        DigitAt(n, 4 * j - 4) + 10 * DigitAt(n, 4 * j - 3)
            + 100 * DigitAt(n, 4 * j - 2) + 1000 * DigitAt(n, 4 * j - 1)]
FromGroups(g) ==
    Norm([i \in 1..(4 * Len(g)) |->
            LET r == 4 * Len(g) - i
            IN  (g[r \div 4 + 1] \div Pow10(r % 4)) % 10])
\* g * m + c on groups
RECURSIVE MulAddGroups(_, _, _)
MulAddGroups(g, m, c) ==
    IF g = <<>>
    THEN IF c = 0 THEN <<>> ELSE <<c % 10000>> \o MulAddGroups(<<>>, m, c \div 10000)
    ELSE LET t == Head(g) * m + c
         IN  <<t % 10000>> \o MulAddGroups(Tail(g), m, t \div 10000)
\* n * m + a, for m and a below 2^16
MulAdd(n, m, a) == FromGroups(MulAddGroups(ToGroups(n), m, a))
RECURSIVE AddGroups(_, _, _)
AddGroups(a, b, c) ==
    IF a = <<>> /\ b = <<>> THEN (IF c = 0 THEN <<>> ELSE <<c>>)
    ELSE LET x == IF a = <<>> THEN 0 ELSE Head(a)
             y == IF b = <<>> THEN 0 ELSE Head(b)
             t == x + y + c
         IN  <<t % 10000>> \o AddGroups(IF a = <<>> THEN a ELSE Tail(a),
                                        IF b = <<>> THEN b ELSE Tail(b), t \div 10000)
Add(a, b) == FromGroups(AddGroups(ToGroups(a), ToGroups(b), 0))
Times10Pow(n, k) == IF n = <<0>> THEN n ELSE n \o Rep(k, 0)
\* the number whose base-65536 digits are ws, most significant first
RECURSIVE FromWords16(_, _)
FromWords16(ws, acc) ==
    IF Len(acc) = 0 \/ ws = <<>> THEN acc
    ELSE FromWords16(Tail(ws), MulAdd(acc, 65536, Head(ws)))
\* the number whose hexadecimal digits are hs, most significant first
FromHexDigits(hs) ==
    LET h(r) == IF r < Len(hs) THEN hs[Len(hs) - r] ELSE 0
        n == (Len(hs) + 3) \div 4
    IN  FromWords16([j \in 1..n |->
                        LET r == 4 * (n - j)
                        IN  h(r) + 16 * h(r + 1) + 256 * h(r + 2) + 4096 * h(r + 3)],
                    <<0>>)

\* 2^256 - 1
U256Max ==
    <<1, 1, 5, 7, 9, 2, 0, 8, 9, 2, 3, 7, 3, 1, 6, 1, 9, 5, 4, 2, 3, 5, 7, 0, 9, 8,
      5, 0, 0, 8, 6, 8, 7, 9, 0, 7, 8, 5, 3, 2, 6, 9, 9, 8, 4, 6, 6, 5, 6, 4, 0, 5,
      6, 4, 0, 3, 9, 4, 5, 7, 5, 8, 4, 0, 0, 7, 9, 1, 3, 1, 2, 9, 6, 3, 9, 9, 3, 5>>
Fits(n) ==
    \/ Len(n) < Len(U256Max)
    \/ /\ Len(n) = Len(U256Max)
       /\ ~BytesLess(U256Max, n)

\* an Option / Result inside the parsers
No == [ok |-> FALSE, val |-> <<0>>]
Yes(v) == [ok |-> TRUE, val |-> v]

StartsWith(s, p) == Len(s) >= Len(p) /\ SubSeq(s, 1, Len(p)) = p
Drop(s, k) == SubSeq(s, k + 1, Len(s))

MaxHexLen == 64

\* <U256 as FromStr>::from_str: an optional 0x, then at most 64 hex digits
U256_from_str(value) ==
    LET v == IF StartsWith(value, <<"0", "x">>) THEN Drop(value, 2) ELSE value
    IN  IF Len(v) > MaxHexLen THEN No
        ELSE IF \E i \in 1..Len(v) : ~IsHex(v[i]) THEN No
        ELSE Yes(FromHexDigits([i \in 1..Len(v) |-> HexVal(v[i])]))

\* StrictTokenizer::tokenize_uint: hex::decode, exactly 32 bytes
StrictTokenizeUint(value) ==
    IF Len(value) # MaxHexLen THEN No
    ELSE IF \E i \in 1..Len(value) : ~IsHex(value[i]) THEN No
    ELSE Yes(FromHexDigits([i \in 1..Len(value) |-> HexVal(value[i])]))

\* Uint::from_dec_str: digits only (none at all is 0), no overflow
from_dec_str(value) ==
    IF \E i \in 1..Len(value) : ~IsDec(value[i]) THEN No
    ELSE LET n == Norm([i \in 1..Len(value) |-> DecVal(value[i])])
         IN  IF Fits(n) THEN Yes(n) ELSE No

\* checked_mul by 10^k
CheckedTimes10Pow(n, k) ==
    LET r == Times10Pow(n, k) IN IF Fits(r) THEN Yes(r) ELSE No

\* the tokenizer's unit table with ether at the wrong scale
UnitScaleWrong(unit) ==
    CASE unit = <<"e", "t", "h", "e", "r">> -> 20
      [] unit \in {<<"g", "w", "e", "i">>, <<"n", "a", "n", "o">>,
                   <<"n", "a", "n", "o", "e", "t", "h", "e", "r">>} -> 9
      [] unit = <<"w", "e", "i">> -> 0
      [] OTHER -> -1
\* the tokenizer's unit table: the power of ten of a unit, -1 for no unit
UnitScale(unit) ==
    CASE unit = <<"e", "t", "h", "e", "r">> -> 18
      [] unit \in {<<"g", "w", "e", "i">>, <<"n", "a", "n", "o">>,
                   <<"n", "a", "n", "o", "e", "t", "h", "e", "r">>} -> 9
      [] unit = <<"w", "e", "i">> -> 0
      [] OTHER -> -1

\* how many leading characters of s satisfy the test
RECURSIVE LeadingDec(_)
LeadingDec(s) == IF s # <<>> /\ IsDec(Head(s)) THEN 1 + LeadingDec(Tail(s)) ELSE 0
RECURSIVE LeadingSpace(_)
LeadingSpace(s) == IF s # <<>> /\ IsSpace(Head(s)) THEN 1 + LeadingSpace(Tail(s)) ELSE 0

\* the tokenizer's regex ^([0-9]+)(\.[0-9]+)?\s*(ether|gwei|nanoether|nano|wei)$
UnitRegex(value) ==
    LET ni == LeadingDec(value)
        r1 == Drop(value, ni)
        nf == IF r1 # <<>> /\ Head(r1) = "." THEN LeadingDec(Tail(r1)) ELSE 0
        r2 == IF nf > 0 THEN Drop(r1, nf + 1) ELSE r1
        r3 == Drop(r2, LeadingSpace(r2))
    IN  IF ni = 0 \/ UnitScale(r3) < 0 THEN [ok |-> FALSE]
        ELSE [ok |-> TRUE, integer |-> SubSeq(value, 1, ni),
              fract |-> IF nf > 0 THEN SubSeq(r1, 2, nf + 1) ELSE <<>>,
              units |-> UnitScale(r3)]

\* LenientTokenizer::tokenize_uint
LenientTokenizeUint(value) ==
    LET strict == StrictTokenizeUint(value)
        dec == from_dec_str(value)
        m == UnitRegex(value)
    IN  IF strict.ok THEN strict
        ELSE IF dec.ok THEN dec
        ELSE IF ~m.ok THEN No
        ELSE LET int == from_dec_str(m.integer)
                 scaled == IF int.ok THEN CheckedTimes10Pow(int.val, m.units) ELSE No
             IN  IF m.fract = <<>> THEN scaled
                 ELSE IF m.units < Len(m.fract) THEN No
                 ELSE LET fr == from_dec_str(m.fract)
                          frs == IF fr.ok
                                 THEN CheckedTimes10Pow(fr.val, m.units - Len(m.fract))
                                 ELSE No
                          sum == IF scaled.ok /\ frs.ok THEN Add(scaled.val, frs.val)
                                 ELSE <<0>>
                      IN  IF scaled.ok /\ frs.ok /\ Fits(sum) THEN Yes(sum) ELSE No

\* value.starts_with("0X")
HasHexPrefixUpper(value) == StartsWith(value, <<"0", "X">>)
\* value.starts_with("0x")
HasHexPrefix(value) == StartsWith(value, <<"0", "x">>)

\* parse_ether_value
parse_ether_value(value) ==
    IF HasHexPrefix(value)
    THEN LET h == U256_from_str(value)
         IN  IF h.ok THEN Ok(h.val) ELSE Err("Other")
    ELSE LET t == LenientTokenizeUint(value)
         IN  IF t.ok THEN Ok(t.val) ELSE Err("Abi")

\* ---- the inputs parse_ether_value is given ----
\* longest string drawn from ShortAlphabet
MaxShort == 2
ShortAlphabet == {"0", "1", "x", "a", "F", ".", " ", "-"}
ShortTexts == UNION {[1..n -> ShortAlphabet] : n \in 0..MaxShort}
IntTexts ==
    {<<>>,
     <<"0">>,
     <<"1">>,
     <<"1", "0", "0">>,
     <<"0", "0", "7">>,
     <<"2", "5">>}
FractTexts ==
    {<<>>,
     <<".", "5">>,
     <<".">>,
     <<".", "0", "5">>,
     <<".", "0", "0", "0", "0", "0", "0", "0", "0", "0", "0", "0", "0", "0", "0", "0", "0", "0", "0", "1">>}
SpaceTexts ==
    {<<>>, <<" ">>, <<" ", "\t">>, <<"\n">>, <<"\r">>, <<"\n", " ">>, <<"U+00A0">>,
     <<"U+000B", "\f">>}
UnitTexts ==
    {<<>>,
     <<"w", "e", "i">>,
     <<"g", "w", "e", "i">>,
     <<"n", "a", "n", "o">>,
     <<"n", "a", "n", "o", "e", "t", "h", "e", "r">>,
     <<"e", "t", "h", "e", "r">>,
     <<"E", "t", "h", "e", "r">>,
     <<"E", "T", "H", "E", "R">>,
     <<"b", "o", "g", "u", "s">>,
     <<"e", "t", "h">>,
     <<"e", "t", "h", "e", "r", " ">>}
UnitInputs ==
    {i \o f \o sp \o u : i \in IntTexts, f \in FractTexts, sp \in SpaceTexts,
                          u \in UnitTexts}
HexBodies ==
    {<<>>,
     <<"6", "4">>,
     <<"0", "0", "6", "4">>,
     <<"F", "F">>,
     <<"f", "F">>,
     <<"g">>,
     <<"6", " ", "4">>,
     <<"0", "x", "1">>,
     <<"a", "b", "c">>}
        \cup {Rep(MaxHexLen, "f"), Rep(MaxHexLen + 1, "f"), Rep(MaxHexLen + 1, "0"),
              <<"1">> \o Rep(MaxHexLen, "0"), <<"1">> \o Rep(MaxHexLen - 1, "0")}
HexInputs ==
    {<<"0", "x">> \o h : h \in HexBodies}
        \cup {<<"0", "X">> \o h : h \in HexBodies}
        \cup HexBodies
OtherInputs ==
    {<<"a", "b", "c">>,
     <<"1", "b", "o", "g", "u", "s">>,
     <<"-", "1">>,
     <<"1", "e", "1", "8">>,
     <<" ", "1", "0", "0">>,
     <<"1", "0", "0", " ">>,
     <<"+", "1">>}
        \cup {<<"2">> \o Rep(59, "0") \o <<"e", "t", "h", "e", "r">>,
              <<"1">> \o Rep(59, "0") \o <<"e", "t", "h", "e", "r">>,
              [i \in 1..Len(U256Max) |-> DecChars[U256Max[i] + 1]],
              [i \in 1..Len(U256Max) |-> DecChars[U256Max[i] + 1]] \o <<"0">>}
ParseInputs == ShortTexts \cup UnitInputs \cup HexInputs \cup OtherInputs

TextIdle == <<>>

\* parse_ether_value(text)
ParseEtherValue ==
    /\ parsed = None
    /\ text \in ParseInputs
    /\ parsed' = parse_ether_value(text)
    /\ UNCHANGED <<num, codec, fs, written, res, procs, hist, text>>

(***************************************************************************)
(* Specifications                                                          *)
(***************************************************************************)
InitNum ==
    /\ num \in {<<v>> : v \in NumInputs}
    /\ codec = CodecIdle /\ fs = KeystoreIdle /\ written = WrittenIdle /\ res = None
    /\ procs = ProcsIdle /\ hist = HistIdle /\ text = TextIdle /\ parsed = None
NextNum == UnsignedTo \/ WordTo
SpecNum == InitNum /\ [][NextNum]_vars

InitCodec ==
    /\ codec \in {[CodecIdle EXCEPT !.obj = x] : x \in CryptoObjects}
    /\ num = NumIdle /\ fs = KeystoreIdle /\ written = WrittenIdle /\ res = None
    /\ procs = ProcsIdle /\ hist = HistIdle /\ text = TextIdle /\ parsed = None
NextCodec == AsBytes \/ Truncate \/ FromBytes
SpecCodec == InitCodec /\ [][NextCodec]_vars

Init ==
    /\ fs \in {f \in [Paths -> InitContents] : f[BadPath] = NoFile}
    /\ written = WrittenIdle /\ res = None
    /\ num = NumIdle /\ codec = CodecIdle
    /\ procs = ProcsIdle /\ hist = HistIdle /\ text = TextIdle /\ parsed = None
Next == WriteBincode \/ WriteWallet \/ ReadBincode \/ ReadWallet
Spec == Init /\ [][Next]_vars

InitSteps ==
    /\ \/ /\ fs = KeystoreIdle /\ written = WrittenIdle /\ hist = HistIdle
       \/ \E x \in StepObjects :
            /\ fs = [KeystoreIdle EXCEPT ![StepPath] = File(Encoding(x))]
            /\ written = [WrittenIdle EXCEPT ![StepPath] = x]
            /\ hist = [HistIdle EXCEPT !.done = {x}]
    /\ res = None /\ procs = ProcsIdle
    /\ num = NumIdle /\ codec = CodecIdle /\ text = TextIdle /\ parsed = None
NextSteps ==
    \E c \in Callers :
        \/ Create(c) \/ WriteChunk(c) \/ Kill(c)
        \/ OpenFile(c) \/ ReadFile(c) \/ FileMetadata(c) \/ ReadToEnd(c)
SpecSteps == InitSteps /\ [][NextSteps]_vars

InitParse ==
    /\ text \in ParseInputs /\ parsed = None
    /\ num = NumIdle /\ codec = CodecIdle /\ fs = KeystoreIdle /\ written = WrittenIdle
    /\ res = None /\ procs = ProcsIdle /\ hist = HistIdle
NextParse == ParseEtherValue
SpecParse == InitParse /\ [][NextParse]_vars

(***************************************************************************)
(* Properties                                                              *)
(***************************************************************************)
\* the object a read returned is the object b that was written; of a wallet
\* only the signing key goes to the file, and the address follows from it
SameObject(a, b) ==
    IF b.variant = "LocalWallet"
    THEN a.variant = "LocalWallet" /\ a.signer = b.signer /\ a.address = b.address
    ELSE a = b

\* C1: each AsNum::to conversion turns one type into the other and gives
\* the same number (the result, read as its own type reads it, has the bits
\* of the argument, read as its type reads it); limb i of an Unsigned256
\* becomes word i of the U256 and the other way round; the two conversions
\* undo each other (two in a row give the value back); and a conversion is
\* always able to produce its result.
NumericBridgeInverse ==
    /\ \A i \in 2..Len(num) :
          /\ num[i].ty # num[i - 1].ty
          /\ NumBits(num[i]) = NumBits(num[i - 1])
          /\ \A j \in 1..Limbs :
                IF num[i].ty = "U256"
                THEN num[i].words[j] = num[i - 1].val.limbs[j].limb
                ELSE num[i].val.limbs[j].limb = num[i - 1].words[j]
    /\ \A i \in 3..Len(num) : num[i] = num[i - 2]
    /\ (num # <<>> /\ Len(num) <= MaxConversions) => ENABLED NextNum

\* C1 witness: the Unsigned256 2^64 (only the lowest bit of the second limb
\* set) has gone to a U256, which is 2^64 too, and back.
NumericBridgeWitness ==
    /\ Len(num) = 3
    /\ num[1] = UnsignedOf({LimbBits})
    /\ num[2].ty = "U256" /\ num[2].words[2] = {0} /\ U256Bits(num[2]) = {LimbBits}
    /\ num[3] = num[1]

\* C2: as_bytes succeeds on every object, and from_bytes of the bytes it
\* gave returns Ok with an object equal to the one encoded.
CodecRoundTrip ==
    /\ codec.buf # None => codec.buf.tag = "Ok"
    /\ (codec.res # None /\ ~codec.cut) => codec.res = Ok(codec.obj)

\* C2 witness: a PublicKey with one key absent and one present was encoded
\* and decoded.
CodecRoundTripWitness ==
    /\ codec.res # None /\ ~codec.cut
    /\ codec.obj.variant = "PublicKey"
    /\ codec.obj.galois_key = <<>> /\ codec.obj.relin_key # <<>>
    /\ codec.res.tag = "Ok"

\* C3: from_bytes of the first k bytes of an encoding of length N, k < N,
\* returns Err of the Conversion kind: no panic, no Ok object.
TruncatedDecodeFails ==
    (codec.cut /\ codec.res # None) => codec.res = Err("Conversion")

\* C3 witness: a Ciphertext's encoding without its last byte was decoded.
TruncatedDecodeWitness ==
    /\ codec.cut /\ codec.res # None
    /\ codec.obj.variant = "Ciphertext" /\ codec.obj.inner # <<>>
    /\ Len(codec.buf.val) = Len(Serialize(codec.obj)) - 1

\* C4: after successful writes to a path the file holds exactly the encoding
\* of the last object written, whatever it held before, and a read of the
\* path for that object's type returns Ok with that object.
KeystoreOverwrite ==
    \A p \in Paths :
        written[p] # None =>
            /\ fs[p] = File(Encoding(written[p]))
            /\ (res # None /\ res.op = "read" /\ res.path = p
                    /\ res.target = written[p].variant)
                 => (res.out.tag = "Ok" /\ SameObject(res.out.val, written[p]))

\* C4 witness: a write has just replaced a longer encoding, written by an
\* earlier call, with a shorter one.
KeystoreOverwriteWitness ==
    /\ res # None /\ res.op = "write" /\ res.out.tag = "Ok"
    /\ res.before # NoFile
    /\ \E x \in StoreObjects : res.before = File(Encoding(x))
    /\ Len(res.before.bytes) > Len(fs[res.path].bytes)
    /\ written[res.path] # None

\* C5: a wallet's write leaves exactly the 32 bytes of its private scalar as
\* the whole file, and a wallet read of that path returns Ok with a wallet of
\* the same scalar and the same address.
WalletRoundTrip ==
    \A p \in Paths :
        (written[p] # None /\ written[p].variant = "LocalWallet") =>
            /\ fs[p] = File(written[p].signer)
            /\ Len(fs[p].bytes) = KeyLen
            /\ (res # None /\ res.op = "read" /\ res.path = p
                    /\ res.target = "LocalWallet")
                 => /\ res.out.tag = "Ok"
                    /\ res.out.val.signer = written[p].signer
                    /\ res.out.val.address = written[p].address

\* C5 witness: Alice's wallet, set to the testnet's chain id, was written
\* and read back.
WalletRoundTripWitness ==
    /\ res # None /\ res.op = "read" /\ res.target = "LocalWallet"
    /\ written[res.path] = Wallet(AliceKey, CHAIN_ID)
    /\ res.out.tag = "Ok"

\* C6: a read classifies its failure: no file at the path gives an Io error
\* for every type; contents the decoder rejects give a Conversion error for
\* the bincode types; a key file of the wrong length, or holding a scalar
\* that is zero or not below the curve order, gives a Wallet error.
ReadErrorKinds ==
    (res # None /\ res.op = "read") =>
        /\ res.before = NoFile => res.out = Err("Io")
        /\ (res.before # NoFile /\ res.target \in Variants
                /\ ~Deserialize(res.target, res.before.bytes).ok)
             => res.out = Err("Conversion")
        /\ (res.before # NoFile /\ res.target = "LocalWallet"
                /\ (\/ Len(res.before.bytes) # KeyLen
                    \/ res.before.bytes = ZeroKey
                    \/ ~BytesLess(res.before.bytes, CurveOrder)))
             => res.out = Err("Wallet")

\* C7 as stated: "100" gives 100, "1ether" gives 100 * 10^18, "0x64" gives
\* 100, "abc" and "1bogus" fail.
ParseExamplesAsStated ==
    parsed # None =>
        /\ text = <<"1", "0", "0">> => parsed = Ok(<<1, 0, 0>>)
        /\ text = <<"1", "e", "t", "h", "e", "r">> => parsed = Ok(<<1, 0, 0>> \o Rep(18, 0))
        /\ text = <<"0", "x", "6", "4">> => parsed = Ok(<<1, 0, 0>>)
        /\ text = <<"a", "b", "c">> => parsed.tag = "Err"
        /\ text = <<"1", "b", "o", "g", "u", "s">> => parsed.tag = "Err"

\* C7 amended: "100" gives 100, "1ether" gives 10^18, "0x64" gives 100, and
\* "abc" and "1bogus" both fail with an Abi error; further, "1gwei" gives
\* 10^9, "1.5ether" gives 15 * 10^17 and "25 wei" gives 25.
ParseExamples ==
    parsed # None =>
        /\ text = <<"1", "0", "0">> => parsed = Ok(<<1, 0, 0>>)
        /\ text = <<"1", "e", "t", "h", "e", "r">> => parsed = Ok(<<1>> \o Rep(18, 0))
        /\ text = <<"0", "x", "6", "4">> => parsed = Ok(<<1, 0, 0>>)
        /\ text = <<"a", "b", "c">> => parsed = Err("Abi")
        /\ text = <<"1", "b", "o", "g", "u", "s">> => parsed = Err("Abi")
        /\ text = <<"1", "g", "w", "e", "i">> => parsed = Ok(<<1>> \o Rep(9, 0))
        /\ text = <<"1", ".", "5", "e", "t", "h", "e", "r">> => parsed = Ok(<<1, 5>> \o Rep(17, 0))
        /\ text = <<"2", "5", " ", "w", "e", "i">> => parsed = Ok(<<2, 5>>)

\* C7 witness: "1ether" was parsed to 10^18.
ParseExamplesWitness ==
    text = <<"1", "e", "t", "h", "e", "r">> /\ parsed = Ok(<<1>> \o Rep(18, 0))

\* C8: an input that begins with "0x" is read as a hexadecimal literal and
\* nothing else: with a character that is no hex digit, or more than 64
\* digits, the result is Err of the Other kind; otherwise it is Ok, and for
\* one or two digits it is the value of those hex digits.
HexBranch ==
    (parsed # None /\ StartsWith(text, <<"0", "x">>)) =>
        LET body == Drop(text, 2)
            bad == Len(body) > MaxHexLen \/ \E i \in 1..Len(body) : ~IsHex(body[i])
            v == IF Len(body) = 1 THEN HexVal(body[1])
                 ELSE 16 * HexVal(body[1]) + HexVal(body[2])
        IN  /\ bad => parsed = Err("Other")
            /\ ~bad => parsed.tag = "Ok"
            /\ (~bad /\ Len(body) \in {1, 2})
                 => parsed.val = Norm(<<v \div 100, (v \div 10) % 10, v % 10>>)

\* C8 witness: "0x" followed by 65 hex digits was rejected with an Other
\* error.
HexBranchWitness ==
    /\ StartsWith(text, <<"0", "x">>) /\ Len(text) = MaxHexLen + 3
    /\ \A i \in 3..Len(text) : IsHex(text[i])
    /\ parsed = Err("Other")

\* C9: a write that was interrupted after the file was created and before
\* its last byte, with no other writer on the path, leaves a strict prefix
\* of the encoding, and a read of the path for the written type returns an
\* error.
InterruptedWriteThenReadErr ==
    hist.cut # None =>
        /\ hist.cut.off < Len(Encoding(hist.cut.obj))
        /\ fs[StepPath] = File(Prefix(Encoding(hist.cut.obj), hist.cut.off))
        /\ (res # None /\ res.cut = hist.cut /\ res.target = hist.cut.obj.variant)
             => res.out.tag = "Err"

\* The part of C9 that holds: the same for the three bincode types, where
\* the error is of the Conversion kind.
InterruptedWriteBincode ==
    (hist.cut # None /\ hist.cut.obj.variant \in Variants) =>
        /\ hist.cut.off < Len(Encoding(hist.cut.obj))
        /\ fs[StepPath] = File(Prefix(Encoding(hist.cut.obj), hist.cut.off))
        /\ (res # None /\ res.cut = hist.cut /\ res.target = hist.cut.obj.variant)
             => res.out = Err("Conversion")

\* C10: the overwrite guarantee holds as long as no two writes have shared
\* the path and none was cut short: with no write in flight the file is the
\* encoding of the last object written, and a read made then returns it.
SerializedAccessOverwrites ==
    /\ (~hist.overlap /\ ~hist.killed /\ written[StepPath] # None
            /\ \A c \in Callers : procs[c].pc # "writing")
         => fs[StepPath] = File(Encoding(written[StepPath]))
    /\ (res # None /\ res.serial /\ ~res.inflight /\ res.last # None
            /\ res.target = res.last.variant)
         => (res.out.tag = "Ok" /\ SameObject(res.out.val, res.last))

\* C10 witness: two writes overlapped, both returned Ok, nothing was killed,
\* and the file is the encoding of no object ever written to the path: an
\* outcome no serial order of the writes gives.
NonSerialOutcome ==
    /\ hist.overlap /\ ~hist.killed
    /\ \A c \in Callers : procs[c].pc = "idle"
    /\ fs[StepPath] \notin {File(Encoding(x)) : x \in hist.done}

=============================================================================
